---- MODULE Spec2Model ----
(***************************************************************************)
(* A model of the common-axum helper library:                              *)
(*   - app_error_v2::AppError, its From conversion and its IntoResponse    *)
(*     (src/src/app_error_v2.rs),                                          *)
(*   - the app_version handler, axum_serve/shutdown_signal and the two     *)
(*     OpenAPI exporters (src/src/axum.rs).                                *)
(* Strings are TLA+ strings, built with \o exactly as format! builds them. *)
(***************************************************************************)
EXTENDS Integers, Sequences, FiniteSets, TLC

VARIABLES
    \* ---- error translator (one error's lifetime) ----
    cur,        \* the anyhow::Error being built/propagated, <<>> if none
    err,        \* the app_error_v2::AppError, NoError if none
    made,       \* how err was made: "none" | "explicit" | "from"
    given,      \* the AppError that into_response consumed (NoError before)
    resp,       \* the Response into_response returned (NoResp before)
    tlog,       \* tracing records emitted by the translator
    \* ---- version endpoint ----
    inodes,     \* contents of every file ever created for Cargo.toml
    path,       \* inode the name "Cargo.toml" is bound to, 0 = absent
    rpc,        \* per request: position in app_version
    rfile,      \* per request: inode of the opened File, 0 = none
    rbuf,       \* per request: file_contents
    rseen,      \* per request: what it found at the path: Absent, or the file read
    rerr,       \* per request: the AppError returned by `?`, NoError if none
    rresp,      \* per request: the response sent, NoResp before
    vlog,       \* tracing records emitted while serving requests
    \* ---- server runner ----
    spc,        \* position of axum_serve
    handlers,   \* signal handlers installed by shutdown_signal
    conns,      \* per connection: "none" | "inflight" | "done" | "cancelled"
    late,       \* connections accepted after the shutdown signal
    atSignal,   \* connections in flight when the shutdown signal arrived
    sigFrom,    \* which select! branch fired: "none" | "ctrl_c" | "terminate"
    installFailed, \* a signal handler could not be installed
    result,     \* what axum_serve gave its caller: "none" | "ok" | "err"
    \* ---- spec exporter ----
    xpc,        \* position of generate_open_api_spec*
    xfn,        \* which exporter is running
    xdoc,       \* the API description being exported
    xjson,      \* api_doc: the pretty JSON text, as tokens
    xfile,      \* contents of the file at file_path, as tokens
    xexists,    \* whether file_path exists
    xold,       \* contents of the file when the exporter was called
    xres        \* what the exporter returned: "none" | "ok" | an error context

tvars == <<cur, err, made, given, resp, tlog>>
vvars == <<inodes, path, rpc, rfile, rbuf, rseen, rerr, rresp, vlog>>
svars == <<spc, handlers, conns, late, atSignal, sigFrom, installFailed, result>>
xvars == <<xpc, xfn, xdoc, xjson, xfile, xexists, xold, xres>>
vars == <<tvars, vvars, svars, xvars>>

\* what an action of one part leaves alone: the other three parts
notT == <<vvars, svars, xvars>>
notV == <<tvars, svars, xvars>>
notS == <<tvars, vvars, xvars>>
notX == <<tvars, vvars, svars>>

NoError == [none |-> TRUE]
NoResp == [none |-> TRUE]
Absent == [absent |-> TRUE]

\* ------------------------------------------------------------ bounds
MaxChain == 3       \* longest cause chain built
MaxRequests == 2    \* concurrent app_version requests
MaxInodes == 2      \* files ever created under the name Cargo.toml
MaxConns == 3       \* connections the server accepts
MaxPaths == 2       \* paths in an API description

\* ------------------------------------------------------------ strings
RECURSIVE Join(_, _)
Join(ss, sep) ==
    IF Len(ss) = 0 THEN ""
    ELSE IF Len(ss) = 1 THEN ss[1]
    ELSE ss[1] \o sep \o Join(Tail(ss), sep)

\* <str as Debug>::fmt: the string in double quotes
Quote(s) == "\"" \o s \o "\""

\* ------------------------------------------------------------ anyhow::Error
\* An anyhow::Error is its chain(): layers outermost first, root cause last.
\* A layer has its Display text and the lines of its pretty Debug text.
MessageError(m) == [display |-> m, debug |-> <<Quote(m)>>]

\* anyhow!(m): a new error whose only layer is the message
anyhow(m) == <<MessageError(m)>>

\* Context::context / Error::context: wrap e in a new outermost layer
context(e, c) == <<MessageError(c)>> \o e

\* std::io::Error of kind NotFound, as File::open returns it
IoNotFound ==
    <<[display |-> "No such file or directory (os error 2)",
       debug |-> <<"Os {", "    code: 2,", "    kind: NotFound,",
                   "    message: \"No such file or directory\",", "}">>]>>

\* std::io::Error of kind InvalidData, as read_to_string returns it
IoInvalidData ==
    <<[display |-> "stream did not contain valid UTF-8",
       debug |-> <<"Custom {", "    kind: InvalidData,",
                   "    error: \"stream did not contain valid UTF-8\",", "}">>]>>

\* toml::de::Error carrying message m
TomlError(m) ==
    <<[display |-> "TOML parse error: " \o m,
       debug |-> <<"Error {", "    message: " \o Quote(m) \o ",", "}">>]>>

\* the messages of the chain, outermost first
Messages(e) == [i \in 1..Len(e) |-> e[i].display]

\* format!("{}", e): the outermost layer only
DisplayPlain(e) == e[1].display

\* variant: the layers joined root cause first
RECURSIVE Reverse(_)
Reverse(q) == IF q = <<>> THEN <<>> ELSE Append(Reverse(Tail(q)), Head(q))
DisplayAltRootFirst(e) == Join(Reverse(Messages(e)), ": ")

\* format!("{:#}", e): every layer, outermost first, joined by ": "
DisplayAlt(e) == Join(Messages(e), ": ")

\* format!("{:#?}", e): the derived pretty Debug of the layers, nested
RECURSIVE DebugAltLines(_)
DebugAltLines(e) ==
    IF Len(e) = 1 THEN e[1].debug
    ELSE LET inner == DebugAltLines(Tail(e))
             n == Len(inner)
             src == [i \in 1..n |->
                        IF i = 1 THEN "    source: " \o inner[1]
                                 ELSE "    " \o inner[i]]
             srcc == [src EXCEPT ![n] = @ \o ","]
         IN <<"Error {", "    context: " \o Quote(e[1].display) \o ",">>
                \o srcc \o <<"}">>

DebugAlt(e) == Join(DebugAltLines(e), "\n")

\* ------------------------------------------------------------ StatusCode
INTERNAL_SERVER_ERROR == 500
OK == 200

\* StatusCode::canonical_reason
CanonicalReason(s) ==
    CASE s = 200 -> "OK"
      [] s = 400 -> "Bad Request"
      [] s = 404 -> "Not Found"
      [] s = 500 -> "Internal Server Error"
      [] OTHER -> "<unknown status code>"

\* <StatusCode as Display>::fmt
DisplayStatus(s) == ToString(s) \o " " \o CanonicalReason(s)

\* ------------------------------------------------------------ AppError (v2)
\* pub struct AppError(pub StatusCode, pub anyhow::Error)
AppError(s, e) == [status |-> s, error |-> e]

\* variant: the conversion keeps only the root cause
FromRootOnly(e) == AppError(INTERNAL_SERVER_ERROR, <<e[Len(e)]>>)

\* impl<E: Into<anyhow::Error>> From<E> for AppError
From(e) == AppError(INTERNAL_SERVER_ERROR, e)

\* variant: the body formatted with "{}" in place of "{:#}"
ErrorBodyPlain(a) == DisplayStatus(a.status) \o ": " \o DisplayPlain(a.error)

\* the body text into_response formats
ErrorBody(a) == DisplayStatus(a.status) \o ": " \o DisplayAlt(a.error)

\* variant: the response built without the carried status
ResponseStatusOk(a) == OK

\* the status into_response puts on the response
ResponseStatus(a) == a.status

\* variant: the error is logged a second time
ErrorRecordsTwice(a) ==
    <<[level |-> "ERROR", message |-> "Error: " \o DebugAlt(a.error)],
      [level |-> "ERROR", message |-> "Error: " \o DebugAlt(a.error)]>>

\* the records error!(...) emits in into_response
ErrorRecords(a) ==
    <<[level |-> "ERROR", message |-> "Error: " \o DebugAlt(a.error)]>>

\* (StatusCode, String)::into_response
TextResponse(s, b) ==
    [status |-> s, content_type |-> "text/plain; charset=utf-8", body |-> b]

\* AppError::into_response: the response it returns
into_response(a) == TextResponse(ResponseStatus(a), ErrorBody(a))

\* ============================================================ translator
Msgs == {"not found", "lookup failed"}
Statuses == {200, 404, 500}

\* the failures a fallible operation starts a chain with
Roots == {anyhow(m) : m \in Msgs} \cup {IoNotFound}

TInit ==
    /\ cur = <<>>
    /\ err = NoError
    /\ made = "none"
    /\ given = NoError
    /\ resp = NoResp
    /\ tlog = <<>>

\* a fallible operation fails with e
Fail(e) ==
    /\ cur = <<>> /\ made = "none"
    /\ cur' = e
    /\ UNCHANGED <<err, made, given, resp, tlog>>
    /\ UNCHANGED notT

\* an intermediate layer adds context c and re-propagates
AddContext(c) ==
    /\ cur # <<>> /\ Len(cur) < MaxChain
    /\ cur' = context(cur, c)
    /\ UNCHANGED <<err, made, given, resp, tlog>>
    /\ UNCHANGED notT

\* a call site builds AppError(s, e) itself
Construct(s) ==
    /\ cur # <<>>
    /\ err' = AppError(s, cur)
    /\ made' = "explicit"
    /\ cur' = <<>>
    /\ UNCHANGED <<given, resp, tlog>>
    /\ UNCHANGED notT

\* `?` in a function returning Result<_, AppError>
Convert ==
    /\ cur # <<>>
    /\ err' = From(cur)
    /\ made' = "from"
    /\ cur' = <<>>
    /\ UNCHANGED <<given, resp, tlog>>
    /\ UNCHANGED notT

\* the framework turns the handler's Err(AppError) into a response
Translate ==
    /\ err # NoError
    /\ given' = err
    /\ resp' = into_response(err)
    /\ tlog' = tlog \o ErrorRecords(err)
    /\ err' = NoError
    /\ UNCHANGED <<cur, made>>
    /\ UNCHANGED notT

TNext ==
    \/ \E e \in Roots : Fail(e)
    \/ \E c \in Msgs : AddContext(c)
    \/ \E s \in Statuses : Construct(s)
    \/ Convert
    \/ Translate

\* ============================================================ app_version
Requests == 1..MaxRequests

\* ---- the manifest texts the environment writes ----
TableLine(n) == [k |-> "table", name |-> n]
StrLine(key, v) == [k |-> "str", key |-> key, val |-> v]
IntLine(key, v) == [k |-> "int", key |-> key, val |-> v]
JunkLine == [k |-> "junk"]

\* A file: whether its bytes are UTF-8, its lines, and (for reference only) the
\* package version its author wrote, "" when it declares none as a string.
Manifests ==
    { [utf8 |-> TRUE, pkgver |-> "1.2.3",
       lines |-> <<TableLine("package"), StrLine("name", "app"), StrLine("version", "1.2.3")>>],
      [utf8 |-> TRUE, pkgver |-> "0.9.0",
       lines |-> <<TableLine("dependencies"), StrLine("version", "7.7.7"),
                   TableLine("package"), StrLine("version", "0.9.0")>>],
      [utf8 |-> TRUE, pkgver |-> "",
       lines |-> <<TableLine("package"), IntLine("version", 1)>>],
      [utf8 |-> FALSE, pkgver |-> "", lines |-> <<JunkLine>>] }

\* ---- toml::from_str::<CargoToml> ----
TomlOk(v) == [ok |-> TRUE, version |-> v]
TomlErr(m) == [ok |-> FALSE, msg |-> m]

\* variant: the table headers are ignored
PackageKeysAnyTable(lines, table) == SelectSeq(lines, LAMBDA l : l.k # "table")

\* the key/value lines under the [package] header
RECURSIVE PackageKeys(_, _)
PackageKeys(lines, table) ==
    IF lines = <<>> THEN <<>>
    ELSE LET l == Head(lines) IN
         IF l.k = "table" THEN PackageKeys(Tail(lines), l.name)
         ELSE IF table = "package" THEN <<l>> \o PackageKeys(Tail(lines), table)
         ELSE PackageKeys(Tail(lines), table)

toml_from_str(lines) ==
    IF \E i \in 1..Len(lines) : lines[i].k = "junk"
    THEN TomlErr("invalid key")
    ELSE IF ~ \E i \in 1..Len(lines) :
                lines[i].k = "table" /\ lines[i].name = "package"
    THEN TomlErr("missing field 'package'")
    ELSE LET ks == PackageKeys(lines, "")
             vs == {i \in 1..Len(ks) : ks[i].key = "version"}
         IN IF vs = {} THEN TomlErr("missing field 'version'")
            ELSE LET v == ks[CHOOSE i \in vs : TRUE] IN
                 IF v.k # "str"
                 THEN TomlErr("invalid type: integer '1', expected a string")
                 ELSE TomlOk(v.val)

\* variant: the open failure propagated without its context
OpenErrorNoContext == IoNotFound

\* ---- the three failures of app_version, with the context each `?` adds ----
OpenError == context(IoNotFound, "Failed to open Cargo.toml")
ReadError == context(IoInvalidData, "Failed to read Cargo.toml")
ParseError(m) == context(TomlError(m), "Failed to parse Cargo.toml")

\* Json(HomeResponse { version }).into_response()
JsonResponse(v) ==
    [status |-> OK, content_type |-> "application/json",
     body |-> "{\"version\":" \o Quote(v) \o "}"]

VInit ==
    /\ \/ inodes = <<>> /\ path = 0
       \/ \E m \in Manifests : inodes = <<m>> /\ path = 1
    /\ rpc = [r \in Requests |-> "idle"]
    /\ rfile = [r \in Requests |-> 0]
    /\ rbuf = [r \in Requests |-> <<>>]
    /\ rseen = [r \in Requests |-> NoError]
    /\ rerr = [r \in Requests |-> NoError]
    /\ rresp = [r \in Requests |-> NoResp]
    /\ vlog = <<>>

\* ---- the environment: the manifest changes between and during requests ----
ManifestCreate(m) ==
    /\ path = 0 /\ Len(inodes) < MaxInodes
    /\ inodes' = Append(inodes, m)
    /\ path' = Len(inodes) + 1
    /\ UNCHANGED <<rpc, rfile, rbuf, rseen, rerr, rresp, vlog>>
    /\ UNCHANGED notV

ManifestWrite(m) ==
    /\ path # 0 /\ inodes[path] # m
    /\ inodes' = [inodes EXCEPT ![path] = m]
    /\ UNCHANGED <<path, rpc, rfile, rbuf, rseen, rerr, rresp, vlog>>
    /\ UNCHANGED notV

ManifestRemove ==
    /\ path # 0
    /\ path' = 0
    /\ UNCHANGED <<inodes, rpc, rfile, rbuf, rseen, rerr, rresp, vlog>>
    /\ UNCHANGED notV

\* ---- app_version, one step per await ----
\* File::open("Cargo.toml").await.context(..)?
Open(r) ==
    /\ rpc[r] = "idle"
    /\ IF path = 0
       THEN /\ rerr' = [rerr EXCEPT ![r] = From(OpenError)]
            /\ rpc' = [rpc EXCEPT ![r] = "err"]
            /\ rseen' = [rseen EXCEPT ![r] = Absent]
            /\ UNCHANGED rfile
       ELSE /\ rfile' = [rfile EXCEPT ![r] = path]
            /\ rpc' = [rpc EXCEPT ![r] = "opened"]
            /\ UNCHANGED <<rerr, rseen>>
    /\ UNCHANGED <<inodes, path, rbuf, rresp, vlog>>
    /\ UNCHANGED notV

\* file.read_to_string(&mut file_contents).await.context(..)?
Read(r) ==
    /\ rpc[r] = "opened"
    /\ LET c == inodes[rfile[r]] IN
       /\ rseen' = [rseen EXCEPT ![r] = c]
       /\ IF c.utf8
          THEN /\ rbuf' = [rbuf EXCEPT ![r] = c.lines]
               /\ rpc' = [rpc EXCEPT ![r] = "read"]
               /\ UNCHANGED rerr
          ELSE /\ rerr' = [rerr EXCEPT ![r] = From(ReadError)]
               /\ rpc' = [rpc EXCEPT ![r] = "err"]
               /\ UNCHANGED rbuf
    /\ rfile' = [rfile EXCEPT ![r] = 0]
    /\ UNCHANGED <<inodes, path, rresp, vlog>>
    /\ UNCHANGED notV

\* toml::from_str(..).context(..)?; return Ok(Json(HomeResponse { .. }))
Parse(r) ==
    /\ rpc[r] = "read"
    /\ LET t == toml_from_str(rbuf[r]) IN
       IF t.ok
       THEN /\ rresp' = [rresp EXCEPT ![r] = JsonResponse(t.version)]
            /\ rpc' = [rpc EXCEPT ![r] = "done"]
            /\ UNCHANGED rerr
       ELSE /\ rerr' = [rerr EXCEPT ![r] = From(ParseError(t.msg))]
            /\ rpc' = [rpc EXCEPT ![r] = "err"]
            /\ UNCHANGED rresp
    /\ rbuf' = [rbuf EXCEPT ![r] = <<>>]
    /\ UNCHANGED <<inodes, path, rfile, rseen, vlog>>
    /\ UNCHANGED notV

\* the framework turns Err(AppError) into the response: AppError::into_response
Respond(r) ==
    /\ rpc[r] = "err"
    /\ rresp' = [rresp EXCEPT ![r] = into_response(rerr[r])]
    /\ vlog' = vlog \o [i \in 1..Len(ErrorRecords(rerr[r])) |->
                           [req |-> r, rec |-> ErrorRecords(rerr[r])[i]]]
    /\ rpc' = [rpc EXCEPT ![r] = "done"]
    /\ UNCHANGED <<inodes, path, rfile, rbuf, rseen, rerr>>
    /\ UNCHANGED notV

VNext ==
    \/ \E m \in Manifests : ManifestCreate(m)
    \/ \E m \in Manifests : ManifestWrite(m)
    \/ ManifestRemove
    \/ \E r \in Requests : Open(r)
    \/ \E r \in Requests : Read(r)
    \/ \E r \in Requests : Parse(r)
    \/ \E r \in Requests : Respond(r)

\* ============================================================ axum_serve
Conns == 1..MaxConns

SInit ==
    /\ spc = "start"
    /\ handlers = {}
    /\ conns = [c \in Conns |-> "none"]
    /\ late = {}
    /\ atSignal = {}
    /\ sigFrom = "none"
    /\ installFailed = FALSE
    /\ result = "none"

InFlight == {c \in Conns : conns[c] = "inflight"}

\* the accept loop takes new connections only until the shutdown future resolves
Accepting == spc = "serving"

\* variant: serve resolves as soon as the signal arrives
DrainDoneNoWait == TRUE

\* with_graceful_shutdown: serve resolves once every connection has closed
DrainDone == InFlight = {}

\* dropping the serve future drops the connection tasks still running
Dropped == [c \in Conns |-> IF conns[c] = "inflight" THEN "cancelled" ELSE conns[c]]

\* shutdown_signal, first poll: signal::ctrl_c() and (cfg(unix)) signal(terminate())
\* both register; on other platforms terminate is future::pending
InstallOk(unix) ==
    /\ spc = "start"
    /\ handlers' = IF unix THEN {"ctrl_c", "terminate"} ELSE {"ctrl_c"}
    /\ spc' = "serving"
    /\ UNCHANGED <<conns, late, atSignal, sigFrom, installFailed, result>>
    /\ UNCHANGED notS

\* a registration fails: .expect(..) panics. The panic either ends the process or
\* unwinds only the task polling the future, whose drop closes the shutdown
\* channel; in neither case does axum_serve get an Err to return.
InstallFailAbort ==
    /\ spc = "start"
    /\ installFailed' = TRUE
    /\ spc' = "aborted"
    /\ UNCHANGED <<handlers, conns, late, atSignal, sigFrom, result>>
    /\ UNCHANGED notS

InstallFailUnwind ==
    /\ spc = "start"
    /\ installFailed' = TRUE
    /\ spc' = "draining"
    /\ UNCHANGED <<handlers, conns, late, atSignal, sigFrom, result>>
    /\ UNCHANGED notS

Accept(c) ==
    /\ Accepting
    /\ spc \in {"serving", "draining"}
    /\ conns[c] = "none"
    /\ conns' = [conns EXCEPT ![c] = "inflight"]
    /\ late' = IF sigFrom # "none" THEN late \cup {c} ELSE late
    /\ UNCHANGED <<spc, handlers, atSignal, sigFrom, installFailed, result>>
    /\ UNCHANGED notS

\* a request handler runs to completion and its connection closes
Complete(c) ==
    /\ spc \in {"serving", "draining"}
    /\ conns[c] = "inflight"
    /\ conns' = [conns EXCEPT ![c] = "done"]
    /\ UNCHANGED <<spc, handlers, late, atSignal, sigFrom, installFailed, result>>
    /\ UNCHANGED notS

\* select!: the branch of signal s completes shutdown_signal
Signal(s) ==
    /\ spc = "serving"
    /\ s \in handlers
    /\ sigFrom' = s
    /\ atSignal' = InFlight
    /\ spc' = "draining"
    /\ UNCHANGED <<handlers, conns, late, installFailed, result>>
    /\ UNCHANGED notS

\* axum::serve(..).with_graceful_shutdown(..).await resolves Ok(())
ReturnOk ==
    /\ spc = "draining"
    /\ DrainDone
    /\ conns' = Dropped
    /\ result' = "ok"
    /\ spc' = "returned"
    /\ UNCHANGED <<handlers, late, atSignal, sigFrom, installFailed>>
    /\ UNCHANGED notS

\* .await? : the serve future resolves Err(e), which axum_serve returns
ReturnErr ==
    /\ spc = "serving"
    /\ conns' = Dropped
    /\ result' = "err"
    /\ spc' = "returned"
    /\ UNCHANGED <<handlers, late, atSignal, sigFrom, installFailed>>
    /\ UNCHANGED notS

SNext ==
    \/ \E u \in BOOLEAN : InstallOk(u)
    \/ InstallFailAbort
    \/ InstallFailUnwind
    \/ \E c \in Conns : Accept(c)
    \/ \E c \in Conns : Complete(c)
    \/ \E s \in {"ctrl_c", "terminate"} : Signal(s)
    \/ ReturnOk
    \/ ReturnErr

\* ============================================================ spec exporter
Punct(v) == [t |-> "punct", v |-> v]
Ws(v) == [t |-> "ws", v |-> v]
StrTok(v) == [t |-> "str", v |-> v]

PathNames == {"/", "/users"}
RECURSIVE SeqsUpTo(_, _)
SeqsUpTo(S, n) ==
    IF n = 0 THEN {<<>>}
    ELSE LET shorter == SeqsUpTo(S, n - 1) IN
         shorter \cup {Append(q, x) : q \in shorter, x \in S}

\* the API descriptions exported: a title and a list of paths
Docs == {[title |-> t, paths |-> ps] : t \in {"api"}, ps \in SeqsUpTo(PathNames, MaxPaths)}

\* serde_json's pretty printer for an array of strings at nesting depth 1
RECURSIVE PrettyItems(_)
PrettyItems(ps) ==
    IF ps = <<>> THEN <<>>
    ELSE <<Ws("\n"), Ws("    "), StrTok(Head(ps))>>
         \o (IF Len(ps) > 1 THEN <<Punct(",")>> ELSE <<>>)
         \o PrettyItems(Tail(ps))

PrettyArray(ps) ==
    IF ps = <<>> THEN <<Punct("["), Punct("]")>>
    ELSE <<Punct("[")>> \o PrettyItems(ps) \o <<Ws("\n"), Ws("  "), Punct("]")>>

\* OpenApi::to_pretty_json
to_pretty_json(d) ==
    <<Punct("{"), Ws("\n"), Ws("  "), StrTok("title"), Punct(":"), Ws(" "),
      StrTok(d.title), Punct(","), Ws("\n"), Ws("  "), StrTok("paths"),
      Punct(":"), Ws(" ")>>
    \o PrettyArray(d.paths) \o <<Ws("\n"), Punct("}")>>

\* serde_json::from_str of the text: whitespace skipped, then the object
RECURSIVE ParseItems(_, _)
ParseItems(toks, i) ==
    IF i > Len(toks) THEN [ok |-> FALSE, items |-> <<>>, next |-> i]
    ELSE IF toks[i] = Punct("]") THEN [ok |-> TRUE, items |-> <<>>, next |-> i + 1]
    ELSE IF toks[i].t # "str" THEN [ok |-> FALSE, items |-> <<>>, next |-> i]
    ELSE IF i + 1 <= Len(toks) /\ toks[i + 1] = Punct(",")
              /\ i + 2 <= Len(toks) /\ toks[i + 2].t = "str"
         THEN LET rest == ParseItems(toks, i + 2) IN
              [ok |-> rest.ok, items |-> <<toks[i].v>> \o rest.items, next |-> rest.next]
    ELSE IF i + 1 <= Len(toks) /\ toks[i + 1] = Punct("]")
         THEN [ok |-> TRUE, items |-> <<toks[i].v>>, next |-> i + 2]
    ELSE [ok |-> FALSE, items |-> <<>>, next |-> i]

from_json(text) ==
    LET toks == SelectSeq(text, LAMBDA k : k.t # "ws")
        head == <<Punct("{"), StrTok("title"), Punct(":")>>
        mid == <<Punct(","), StrTok("paths"), Punct(":"), Punct("[")>>
    IN IF Len(toks) < 10 \/ SubSeq(toks, 1, 3) # head \/ toks[4].t # "str"
          \/ SubSeq(toks, 5, 8) # mid
       THEN [ok |-> FALSE]
       ELSE LET r == ParseItems(toks, 9) IN
            IF r.ok /\ r.next = Len(toks) /\ toks[r.next] = Punct("}")
            THEN [ok |-> TRUE, doc |-> [title |-> toks[4].v, paths |-> r.items]]
            ELSE [ok |-> FALSE]

\* variant: the file opened for writing without truncation
FileCreateKeep(old) == old

\* std::fs::File::create: the file exists afterwards, truncated to nothing
FileCreate(old) == <<>>

\* write_all from the start of the file: the bytes replace what is under them
WriteAll(file, data) == data \o SubSeq(file, Len(data) + 1, Len(file))

\* what the path may hold before an export: nothing, an earlier export, other text
OldFiles ==
    {<<>>} \cup {to_pretty_json(d) : d \in Docs}
    \cup {[i \in 1..40 |-> StrTok("old")]}

XInit ==
    /\ xpc = "idle"
    /\ xfn = "none"
    /\ xdoc = [title |-> "", paths |-> <<>>]
    /\ xjson = <<>>
    /\ xfile = <<>>
    /\ xexists = FALSE
    /\ xold = <<>>
    /\ xres = "none"

\* something else leaves text at file_path while no export runs; the last
\* export's outcome is then no longer what the file shows
FileWritten(f) ==
    /\ xpc \in {"idle", "returned"}
    /\ xfile # f \/ ~xexists
    /\ xfile' = f
    /\ xexists' = TRUE
    /\ xpc' = "idle"
    /\ xres' = "none"
    /\ UNCHANGED <<xfn, xdoc, xjson, xold>>
    /\ UNCHANGED notX

\* to_pretty_json().context(..)? of either exporter; serok is serde's verdict
Serialize(fn, d, serok) ==
    /\ xpc \in {"idle", "returned"}
    /\ xfn' = fn
    /\ xdoc' = d
    /\ xold' = xfile
    /\ IF serok
       THEN xjson' = to_pretty_json(d) /\ xpc' = "serialized" /\ xres' = "none"
       ELSE /\ xjson' = <<>>
            /\ xpc' = "returned"
            /\ xres' = "Failed to generate open API spec"
    /\ UNCHANGED <<xfile, xexists>>
    /\ UNCHANGED notX

\* generate_open_api_spec::<T>(file_path), T::openapi() being d
generate_open_api_spec(d, serok) ==
    Serialize("generate_open_api_spec", d, serok)

\* generate_open_api_spec_from_open_api(open_api, file_path)
generate_open_api_spec_from_open_api(d, serok) ==
    Serialize("generate_open_api_spec_from_open_api", d, serok)

\* std::fs::File::create(file_path).context(..)?
CreateStep(writable) ==
    /\ xpc = "serialized"
    /\ IF writable
       THEN /\ xfile' = FileCreate(xfile)
            /\ xexists' = TRUE
            /\ xpc' = "created"
            /\ UNCHANGED xres
       ELSE /\ xres' = "Failed to create open API spec file"
            /\ xpc' = "returned"
            /\ UNCHANGED <<xfile, xexists>>
    /\ UNCHANGED <<xfn, xdoc, xjson, xold>>
    /\ UNCHANGED notX

\* file.write_all(api_doc.as_bytes()).context(..)? ; return Ok(())
WriteStep ==
    /\ xpc = "created"
    /\ xfile' = WriteAll(xfile, xjson)
    /\ xres' = "ok"
    /\ xpc' = "returned"
    /\ UNCHANGED <<xfn, xdoc, xjson, xexists, xold>>
    /\ UNCHANGED notX

\* write_all fails after k tokens reached the file
WriteFail(k) ==
    /\ xpc = "created"
    /\ k < Len(xjson)
    /\ xfile' = WriteAll(xfile, SubSeq(xjson, 1, k))
    /\ xres' = "Failed to write open api spec to file"
    /\ xpc' = "returned"
    /\ UNCHANGED <<xfn, xdoc, xjson, xexists, xold>>
    /\ UNCHANGED notX

XNext ==
    \/ \E f \in OldFiles : FileWritten(f)
    \/ \E d \in Docs, ok \in BOOLEAN : generate_open_api_spec(d, ok)
    \/ \E d \in Docs, ok \in BOOLEAN : generate_open_api_spec_from_open_api(d, ok)
    \/ \E w \in BOOLEAN : CreateStep(w)
    \/ WriteStep
    \/ \E k \in {0, 5} : WriteFail(k)

\* ============================================================ specifications
\* The four parts share no state, so each is checked under its own
\* specification, the other parts standing still.
VQuiet ==
    /\ inodes = <<>> /\ path = 0
    /\ rpc = [r \in Requests |-> "idle"]
    /\ rfile = [r \in Requests |-> 0]
    /\ rbuf = [r \in Requests |-> <<>>]
    /\ rseen = [r \in Requests |-> NoError]
    /\ rerr = [r \in Requests |-> NoError]
    /\ rresp = [r \in Requests |-> NoResp]
    /\ vlog = <<>>

Init == TInit /\ VInit /\ SInit /\ XInit

Next == TNext \/ VNext \/ SNext \/ XNext

Spec == Init /\ [][Next]_vars

IdleInit == TInit /\ VQuiet /\ SInit /\ XInit
SpecTranslate == IdleInit /\ [][TNext]_vars

SpecVersion == Init /\ [][VNext]_vars

SpecServe == IdleInit /\ [][SNext]_vars

SpecExport == IdleInit /\ [][XNext]_vars

\* ============================================================ properties
\* the chain of e from layer i on, each message followed by ": " but the last
RECURSIVE TerseFrom(_, _)
TerseFrom(e, i) ==
    IF i >= Len(e) THEN e[Len(e)].display
    ELSE e[i].display \o ": " \o TerseFrom(e, i + 1)

\* C1: the response of a translated error carries the error's status, and its
\* body is "<status>: <chain>", the chain in its one-line rendering.
C1_StatusAndTerseBody ==
    given # NoError =>
        /\ resp.status = given.status
        /\ resp.body = ToString(given.status) \o " " \o CanonicalReason(given.status)
                         \o ": " \o TerseFrom(given.error, 1)

C1_Witness ==
    /\ given # NoError
    /\ Len(given.error) = 3
    /\ given.status = 404

\* the tracing records emitted on behalf of request r
LoggedFor(r) == {i \in 1..Len(vlog) : vlog[i].req = r}

\* C2: an error a request produced is logged once, at error severity, and
\* answered once: nothing is logged before the boundary, exactly one record and
\* one response exist after it, and a request without an error logs nothing.
C2_LoggedOnceAnsweredOnce ==
    \A r \in Requests :
        /\ rpc[r] = "err" =>
              rerr[r] # NoError /\ LoggedFor(r) = {} /\ rresp[r] = NoResp
        /\ (rpc[r] = "done" /\ rerr[r] # NoError) =>
              /\ Cardinality(LoggedFor(r)) = 1
              /\ \A i \in LoggedFor(r) : vlog[i].rec.level = "ERROR"
              /\ rresp[r] # NoResp /\ rresp[r].status = rerr[r].status
        /\ rerr[r] = NoError => LoggedFor(r) = {}

C2_Witness ==
    /\ \A r \in Requests : rpc[r] = "done" /\ rerr[r] # NoError
    /\ Len(vlog) = MaxRequests

\* C3 as stated: an implicitly upgraded error has status 500 and a chain of
\* exactly one element.
C3_SingleElementChain ==
    (made = "from" /\ err # NoError) =>
        err.status = 500 /\ Len(err.error) = 1

\* C3, amended: an implicitly upgraded error has status 500 and carries the
\* whole chain of the value it was made from, unchanged (one element only when
\* that value had no context and no source).
C3_StatusAndWholeChain ==
    [][(made = "none" /\ made' = "from") =>
          /\ err'.status = 500
          /\ Len(err'.error) = Len(cur)
          /\ \A i \in 1..Len(cur) : err'.error[i] = cur[i]]_vars

C3_Witness ==
    /\ made = "from" /\ err # NoError
    /\ Len(err.error) = 2

\* C4 as stated: whatever status the producer chose, the response of a
\* translated error is outside 200-299.
C4_NeverSuccessStatus ==
    given # NoError => resp.status \notin 200..299

\* C4, amended: the response has the status the producer chose, so it is
\* outside 200-299 exactly when that status is; an implicitly upgraded error
\* always answers outside 200-299.
C4_SuccessOnlyIfChosen ==
    given # NoError =>
        /\ (resp.status \in 200..299) <=> (given.status \in 200..299)
        /\ made = "from" => resp.status \notin 200..299

C4_Witness ==
    /\ given # NoError
    /\ made = "explicit"
    /\ given.status = 404
    /\ resp.status \notin 200..299

\* C5: once a shutdown signal has arrived no connection is accepted any more,
\* no handler is cancelled, and axum_serve has returned only after every
\* connection that was in flight at the signal ran to completion.
C5_GracefulDrain ==
    /\ late = {}
    /\ sigFrom # "none" => \A c \in Conns : conns[c] # "cancelled"
    /\ (sigFrom # "none" /\ spc = "returned") =>
          /\ result = "ok"
          /\ \A c \in atSignal : conns[c] = "done"

C5_Witness ==
    /\ spc = "returned"
    /\ sigFrom = "terminate"
    /\ Cardinality(atSignal) >= 2

\* C6: every failure inside axum_serve, a failed signal-handler installation
\* included, reaches the caller as an error result and never ends the process.
C6_FailurePropagated ==
    /\ spc # "aborted"
    /\ (installFailed /\ spc = "returned") => result = "err"

NotFoundLookup == AppError(404, context(anyhow("not found"), "lookup failed"))

\* C8 as stated: the body lists the chain root cause first.
C8_BodyRootFirst ==
    given = NotFoundLookup =>
        /\ resp.status = 404
        /\ resp.body = "404 Not Found: not found: lookup failed"
        /\ \A i \in 1..Len(tlog) : tlog[i].message # resp.body

\* C8, amended: the status is 404 and the body lists the chain outermost
\* context first, root cause last, separated by ": "; the log record differs
\* from the body.
C8_BodyOutermostFirst ==
    given = NotFoundLookup =>
        /\ resp.status = 404
        /\ resp.body = "404 Not Found: lookup failed: not found"
        /\ Len(tlog) = 1
        /\ \A i \in 1..Len(tlog) : tlog[i].message # resp.body

C8_Witness == given = NotFoundLookup /\ resp # NoResp

\* C9: a request that read a manifest declaring package version v answers 200
\* with {"version": v}, v being the version of the file as it was at that read;
\* no other request answers 200.
C9_VersionOfManifestRead ==
    \A r \in Requests :
        rpc[r] = "done" =>
            IF rseen[r] \in Manifests /\ rseen[r].utf8 /\ rseen[r].pkgver # ""
            THEN /\ rresp[r].status = 200
                 /\ rresp[r].body = "{\"version\":\"" \o rseen[r].pkgver \o "\"}"
            ELSE rresp[r].status # 200

C9_Witness ==
    /\ \A r \in Requests : rpc[r] = "done" /\ rresp[r].status = 200
    /\ \E r1, r2 \in Requests : rresp[r1].body # rresp[r2].body
    /\ \E r \in Requests : rresp[r].body = "{\"version\":\"1.2.3\"}"

\* C10: after an exporter returned Ok the file holds exactly the pretty text
\* of the description, nothing of the old contents, and parses back to it.
C10_FileIsExport ==
    (xpc = "returned" /\ xres = "ok") =>
        /\ xexists
        /\ xfile = to_pretty_json(xdoc)
        /\ from_json(xfile) = [ok |-> TRUE, doc |-> xdoc]

C10_Witness ==
    /\ xpc = "returned" /\ xres = "ok"
    /\ Len(xold) > Len(xfile)
    /\ xfn = "generate_open_api_spec_from_open_api"
    /\ Len(xdoc.paths) = 2

====
